---- MODULE Spec2Model ----
(***************************************************************************)
(* The simulation core of maindebug.py: the per-frame update of the player *)
(* (move_player, apply_physics, handle_collisions,                         *)
(* constrain_player_to_world), the hazards and pickups                     *)
(* (handle_damage_bricks, the invincibility timeout,                       *)
(* handle_coin_collection), Camera.update, and the game loop of main().    *)
(*                                                                         *)
(* Numbers.  Positions and velocities are Python floats that only ever     *)
(* hold multiples of 0.1 (speed 3.5, gravity 0.2, integers); they are kept *)
(* here as integers counting TENTHS of a pixel, so 3.5 is 35.  pygame.Rect *)
(* holds integers: Rect(x, y, w, h) truncates float arguments toward zero, *)
(* which is Trunc below.  Rect fields are whole pixels.  The clock         *)
(* (pygame.time.get_ticks) is in milliseconds; every read of one loop      *)
(* iteration returns the value sampled when the iteration started.         *)
(***************************************************************************)
EXTENDS Integers, Sequences, FiniteSets, TLC

\* ---------------------------------------------------------------- constants
WINDOW_WIDTH == 800
WINDOW_HEIGHT == 600
WORLD_WIDTH == 4069
WORLD_HEIGHT == 2048
SKYBOX_HEIGHT == 50
PLAYER_SIZE == 15
\* tenths of a pixel (per frame)
SPEED == 35
DASH_SPEED == 90
JUMP_FORCE == -50
GRAVITY == 2
MAX_FALL_SPEED == 100
\* milliseconds
DASH_COOLDOWN == 500
INVINCIBLE_MS == 1000
EXIT_DELAY_MS == 5000
\* frames
DASH_FRAMES == 15
START_HP == 100
COIN_SIZE == 10
BRICK_SIZE == 50
BRICK_DAMAGE == 25

\* one pixel, in the unit of positions
PX == 10

\* ------------------------------------------------------------------ helpers
Min(a, b) == IF a <= b THEN a ELSE b
Max(a, b) == IF a >= b THEN a ELSE b
Abs(a) == IF a >= 0 THEN a ELSE -a

\* int(v) of a float v given in tenths: truncation toward zero, in pixels
Trunc(v) == IF v >= 0 THEN v \div PX ELSE -((-v) \div PX)

\* pygame.Rect(x, y, w, h) with x, y floats in tenths and w, h integers
Rect(x, y, w, h) ==
  [left |-> Trunc(x), top |-> Trunc(y), right |-> Trunc(x) + w, bottom |-> Trunc(y) + h]

\* a rectangle given in whole pixels (level data, coins, bricks)
PxRect(x, y, w, h) == [left |-> x, top |-> y, right |-> x + w, bottom |-> y + h]

\* the player's hitbox
PlayerRect(p) == Rect(p.pos[1], p.pos[2], PLAYER_SIZE, PLAYER_SIZE)

\* pygame.Rect.colliderect for rectangles of positive size: touching edges do not collide
Colliderect(a, b) ==
  a.left < b.right /\ a.right > b.left /\ a.top < b.bottom /\ a.bottom > b.top

\* ------------------------------------------------------------ apply_physics
ApplyPhysicsMutLateClear(p) ==
  LET q == IF ~p.is_dashing
           THEN IF ~p.is_grounded
                THEN [p EXCEPT !.y_velocity = Min(p.y_velocity + GRAVITY, MAX_FALL_SPEED)]
                ELSE p
           ELSE IF p.dash_timer - 1 < 0
                THEN [p EXCEPT !.dash_timer = p.dash_timer - 1,
                               !.is_dashing = FALSE, !.x_velocity = 0]
                ELSE [p EXCEPT !.dash_timer = p.dash_timer - 1]
  IN [q EXCEPT !.pos[2] = q.pos[2] + q.y_velocity]

ApplyPhysicsMutGravityInDash(p) ==
  LET g == IF ~p.is_grounded
           THEN [p EXCEPT !.y_velocity = Min(p.y_velocity + GRAVITY, MAX_FALL_SPEED)]
           ELSE p
      q == IF ~p.is_dashing
           THEN g
           ELSE IF p.dash_timer - 1 <= 0
                THEN [g EXCEPT !.dash_timer = p.dash_timer - 1,
                               !.is_dashing = FALSE, !.x_velocity = 0]
                ELSE [g EXCEPT !.dash_timer = p.dash_timer - 1]
  IN [q EXCEPT !.pos[2] = q.pos[2] + q.y_velocity]

ApplyPhysicsMutNoCap(p) ==
  LET q == IF ~p.is_dashing
           THEN IF ~p.is_grounded
                THEN [p EXCEPT !.y_velocity = p.y_velocity + GRAVITY]
                ELSE p
           ELSE IF p.dash_timer - 1 <= 0
                THEN [p EXCEPT !.dash_timer = p.dash_timer - 1,
                               !.is_dashing = FALSE, !.x_velocity = 0]
                ELSE [p EXCEPT !.dash_timer = p.dash_timer - 1]
  IN [q EXCEPT !.pos[2] = q.pos[2] + q.y_velocity]

ApplyPhysics(p) ==
  LET q == IF ~p.is_dashing
           THEN IF ~p.is_grounded
                THEN [p EXCEPT !.y_velocity = Min(p.y_velocity + GRAVITY, MAX_FALL_SPEED)]
                ELSE p
           ELSE IF p.dash_timer - 1 <= 0
                THEN [p EXCEPT !.dash_timer = p.dash_timer - 1,
                               !.is_dashing = FALSE, !.x_velocity = 0]
                ELSE [p EXCEPT !.dash_timer = p.dash_timer - 1]
  IN [q EXCEPT !.pos[2] = q.pos[2] + q.y_velocity]

\* ------------------------------------------------ constrain_player_to_world
ConstrainMutNoFloor(p) ==
  LET h == IF p.pos[1] < 0
           THEN [p EXCEPT !.pos[1] = 0, !.x_velocity = 0]
           ELSE IF p.pos[1] > (WORLD_WIDTH - PLAYER_SIZE) * PX
                THEN [p EXCEPT !.pos[1] = (WORLD_WIDTH - PLAYER_SIZE) * PX, !.x_velocity = 0]
                ELSE p
  IN IF h.pos[2] < SKYBOX_HEIGHT * PX
     THEN [h EXCEPT !.pos[2] = SKYBOX_HEIGHT * PX, !.y_velocity = 0]
     ELSE h

ConstrainPlayerToWorld(p) ==
  LET h == IF p.pos[1] < 0
           THEN [p EXCEPT !.pos[1] = 0, !.x_velocity = 0]
           ELSE IF p.pos[1] > (WORLD_WIDTH - PLAYER_SIZE) * PX
                THEN [p EXCEPT !.pos[1] = (WORLD_WIDTH - PLAYER_SIZE) * PX, !.x_velocity = 0]
                ELSE p
  IN IF h.pos[2] < SKYBOX_HEIGHT * PX
     THEN [h EXCEPT !.pos[2] = SKYBOX_HEIGHT * PX, !.y_velocity = 0]
     ELSE IF h.pos[2] > (WORLD_HEIGHT - PLAYER_SIZE) * PX
          THEN [h EXCEPT !.pos[2] = (WORLD_HEIGHT - PLAYER_SIZE) * PX,
                         !.y_velocity = 0, !.is_grounded = TRUE]
          ELSE h

\* -------------------------------------------------------------- move_player
\* keys: [left, right, jump, dash], the per-frame state of K_LEFT or K_a,
\* K_RIGHT or K_d, K_SPACE and K_LSHIFT
DashTriggerMutNoCooldown(p, keys, now) == keys.dash /\ ~p.dash_key_pressed

DashTrigger(p, keys, now) ==
  keys.dash /\ ~p.dash_key_pressed /\ now - p.last_dash >= DASH_COOLDOWN

StartDashMutWalkSpeed(p, keys, now) ==
  IF keys.right
  THEN [p EXCEPT !.is_dashing = TRUE, !.dash_timer = DASH_FRAMES,
                 !.x_velocity = SPEED, !.facing_right = TRUE, !.last_dash = now]
  ELSE IF keys.left
       THEN [p EXCEPT !.is_dashing = TRUE, !.dash_timer = DASH_FRAMES,
                      !.x_velocity = -SPEED, !.facing_right = FALSE, !.last_dash = now]
       ELSE p

StartDash(p, keys, now) ==
  IF keys.right
  THEN [p EXCEPT !.is_dashing = TRUE, !.dash_timer = DASH_FRAMES,
                 !.x_velocity = DASH_SPEED, !.facing_right = TRUE, !.last_dash = now]
  ELSE IF keys.left
       THEN [p EXCEPT !.is_dashing = TRUE, !.dash_timer = DASH_FRAMES,
                      !.x_velocity = -DASH_SPEED, !.facing_right = FALSE, !.last_dash = now]
       ELSE p

MovePlayerMutWalkWhileDashing(p, keys, now) ==
  LET c == IF p.is_dashing
           THEN [p EXCEPT !.pos[1] = p.pos[1] + p.x_velocity]
           ELSE LET d == IF DashTrigger(p, keys, now) THEN StartDash(p, keys, now) ELSE p
                IN [d EXCEPT !.dash_key_pressed = keys.dash]
      l == IF keys.left
           THEN [c EXCEPT !.pos[1] = c.pos[1] - SPEED, !.facing_right = FALSE]
           ELSE c
      r == IF keys.right
           THEN [l EXCEPT !.pos[1] = l.pos[1] + SPEED, !.facing_right = TRUE]
           ELSE l
  IN IF keys.jump /\ r.is_grounded /\ ~p.is_dashing
     THEN [r EXCEPT !.y_velocity = JUMP_FORCE]
     ELSE r

MovePlayerMutAirJump(p, keys, now) ==
  IF p.is_dashing
  THEN [p EXCEPT !.pos[1] = p.pos[1] + p.x_velocity]
  ELSE LET d == IF DashTrigger(p, keys, now) THEN StartDash(p, keys, now) ELSE p
           k == [d EXCEPT !.dash_key_pressed = keys.dash]
           l == IF keys.left
                THEN [k EXCEPT !.pos[1] = k.pos[1] - SPEED, !.facing_right = FALSE]
                ELSE k
           r == IF keys.right
                THEN [l EXCEPT !.pos[1] = l.pos[1] + SPEED, !.facing_right = TRUE]
                ELSE l
       IN IF keys.jump
          THEN [r EXCEPT !.y_velocity = JUMP_FORCE]
          ELSE r

MovePlayer(p, keys, now) ==
  IF p.is_dashing
  THEN [p EXCEPT !.pos[1] = p.pos[1] + p.x_velocity]
  ELSE LET d == IF DashTrigger(p, keys, now) THEN StartDash(p, keys, now) ELSE p
           k == [d EXCEPT !.dash_key_pressed = keys.dash]
           l == IF keys.left
                THEN [k EXCEPT !.pos[1] = k.pos[1] - SPEED, !.facing_right = FALSE]
                ELSE k
           r == IF keys.right
                THEN [l EXCEPT !.pos[1] = l.pos[1] + SPEED, !.facing_right = TRUE]
                ELSE l
       IN IF keys.jump /\ r.is_grounded
          THEN [r EXCEPT !.y_velocity = JUMP_FORCE]
          ELSE r

\* -------------------------------------------------------- handle_collisions
\* rect is the player's rectangle and pb the previous bottom (tenths), both
\* computed once before the loop; y_velocity is read from the player as the
\* loop has left it
LandingMutAnyVelocity(q, rect, pb, pl) ==
  /\ pb <= pl.top * PX
  /\ rect.bottom >= pl.top
  /\ rect.right > pl.left
  /\ rect.left < pl.right

Landing(q, rect, pb, pl) ==
  /\ pb <= pl.top * PX
  /\ rect.bottom >= pl.top
  /\ rect.right > pl.left
  /\ rect.left < pl.right
  /\ q.y_velocity > 0

HeadBump(q, rect, pl) ==
  /\ rect.top < pl.bottom
  /\ rect.top * PX >= pl.bottom * PX - Abs(q.y_velocity)
  /\ rect.right > pl.left
  /\ rect.left < pl.right
  /\ q.y_velocity < 0

SideLeft(rect, pl) ==
  /\ rect.right > pl.left
  /\ rect.left < pl.left
  /\ rect.bottom > pl.top + 5
  /\ rect.top < pl.bottom - 5

SideRight(rect, pl) ==
  /\ rect.left < pl.right
  /\ rect.right > pl.right
  /\ rect.bottom > pl.top + 5
  /\ rect.top < pl.bottom - 5

Land(q, pl) ==
  [q EXCEPT !.pos[2] = (pl.top - PLAYER_SIZE) * PX, !.y_velocity = 0, !.is_grounded = TRUE]

BumpMutKeepVelocity(q, pl) == [q EXCEPT !.pos[2] = pl.bottom * PX]

Bump(q, pl) == [q EXCEPT !.pos[2] = pl.bottom * PX, !.y_velocity = 0]

SideChainMutKeepVelocity(a, rect, pl) ==
  IF SideLeft(rect, pl)
  THEN [a EXCEPT !.pos[1] = (pl.left - PLAYER_SIZE) * PX]
  ELSE IF SideRight(rect, pl)
       THEN [a EXCEPT !.pos[1] = pl.right * PX]
       ELSE IF HeadBump(a, rect, pl) THEN Bump(a, pl) ELSE a

\* the second if / elif / elif chain of the loop body
SideChain(a, rect, pl) ==
  IF SideLeft(rect, pl)
  THEN [a EXCEPT !.pos[1] = (pl.left - PLAYER_SIZE) * PX, !.x_velocity = 0]
  ELSE IF SideRight(rect, pl)
       THEN [a EXCEPT !.pos[1] = pl.right * PX, !.x_velocity = 0]
       ELSE IF HeadBump(a, rect, pl) THEN Bump(a, pl) ELSE a

RECURSIVE CollideFrom(_, _, _, _, _)
CollideFrom(q, rect, pb, plats, i) ==
  IF i > Len(plats)
  THEN q
  ELSE LET pl == plats[i]
       IN IF Landing(q, rect, pb, pl)
          THEN Land(q, pl)
          ELSE LET a == IF HeadBump(q, rect, pl) THEN Bump(q, pl) ELSE q
               IN CollideFrom(SideChain(a, rect, pl), rect, pb, plats, i + 1)

HandleCollisions(p, plats) ==
  LET q == [p EXCEPT !.is_grounded = FALSE]
      rect == PlayerRect(q)
  IN CollideFrom(q, rect, rect.bottom * PX - q.y_velocity, plats, 1)

\* the update pass of one frame: main, lines 511-517
BeforeClamp(p, keys, now, plats) ==
  HandleCollisions(ApplyPhysics(MovePlayer(p, keys, now)), plats)

UpdatePass(p, keys, now, plats) == ConstrainPlayerToWorld(BeforeClamp(p, keys, now, plats))

\* ------------------------------------------- handle_damage (second definition)
HandleDamageMutIgnoreInvincible(p, amount, now) ==
  [p EXCEPT !.hp = Max(p.hp - amount, 0), !.is_invincible = TRUE, !.last_damage_time = now]

HandleDamageMutNoFloor(p, amount, now) ==
  IF ~p.is_invincible
  THEN [p EXCEPT !.hp = p.hp - amount, !.is_invincible = TRUE, !.last_damage_time = now]
  ELSE p

HandleDamage(p, amount, now) ==
  IF ~p.is_invincible
  THEN [p EXCEPT !.hp = IF p.hp - amount < 0 THEN 0 ELSE p.hp - amount,
                 !.is_invincible = TRUE, !.last_damage_time = now]
  ELSE p

RECURSIVE DamageFrom(_, _, _, _, _)
DamageFrom(p, rect, bricks, now, i) ==
  IF i > Len(bricks)
  THEN p
  ELSE DamageFrom(IF Colliderect(rect, bricks[i].rect)
                  THEN HandleDamage(p, bricks[i].damage, now)
                  ELSE p,
                  rect, bricks, now, i + 1)

HandleDamageBricks(p, bricks, now) == DamageFrom(p, PlayerRect(p), bricks, now, 1)

\* main, lines 529-531
InvincibilityCheckMutAtLeast(p, now) ==
  IF p.is_invincible /\ now - p.last_damage_time >= INVINCIBLE_MS
  THEN [p EXCEPT !.is_invincible = FALSE]
  ELSE p

InvincibilityCheckMutNever(p, now) == p

InvincibilityCheck(p, now) ==
  IF p.is_invincible /\ now - p.last_damage_time > INVINCIBLE_MS
  THEN [p EXCEPT !.is_invincible = FALSE]
  ELSE p

\* --------------------------------------------------- handle_coin_collection
\* cs: the coins, sc: the score; the result is <<coins, score>>
RECURSIVE CollectFrom(_, _, _, _)
CollectFrom(rect, cs, sc, i) ==
  IF i > Len(cs)
  THEN <<cs, sc>>
  ELSE IF ~cs[i].collected /\ Colliderect(rect, cs[i].rect)
       THEN CollectFrom(rect, [cs EXCEPT ![i].collected = TRUE], sc + 1, i + 1)
       ELSE CollectFrom(rect, cs, sc, i + 1)

RECURSIVE RecollectFrom(_, _, _, _)
RecollectFrom(rect, cs, sc, i) ==
  IF i > Len(cs)
  THEN <<cs, sc>>
  ELSE IF Colliderect(rect, cs[i].rect)
       THEN RecollectFrom(rect, [cs EXCEPT ![i].collected = TRUE], sc + 1, i + 1)
       ELSE RecollectFrom(rect, cs, sc, i + 1)

HandleCoinCollectionMutRecollect(p, cs, sc) == RecollectFrom(PlayerRect(p), cs, sc, 1)

HandleCoinCollection(p, cs, sc) == CollectFrom(PlayerRect(p), cs, sc, 1)

\* ------------------------------------------------------------ Camera.update
\* target.centerx = left + width // 2; the result is the viewport's top-left
CameraUpdateMutNoUpperClamp(target) ==
  LET cx == target.left + (target.right - target.left) \div 2
      cy == target.top + (target.bottom - target.top) \div 2
  IN <<Max(0, cx - WINDOW_WIDTH \div 2), Max(0, cy - WINDOW_HEIGHT \div 2)>>

CameraUpdate(target) ==
  LET cx == target.left + (target.right - target.left) \div 2
      cy == target.top + (target.bottom - target.top) \div 2
  IN <<Max(0, Min(cx - WINDOW_WIDTH \div 2, WORLD_WIDTH - WINDOW_WIDTH)),
       Max(0, Min(cy - WINDOW_HEIGHT \div 2, WORLD_HEIGHT - WINDOW_HEIGHT))>>

\* ==================================================================== state
VARIABLES
  player,          \* the player dictionary of main
  coins,           \* the Coin objects: [rect, collected]
  score,
  camera,          \* top-left of camera.camera
  platforms,       \* the level: Platform rectangles in level order
  damage_bricks,   \* the DamageBrick objects: [rect, damage]
  now,             \* pygame.time.get_ticks() as sampled by the current iteration
  game_over, game_over_time, score_saved, running,
  saved_scores,    \* the scores save_score was called with, in order
  pc,              \* where the loop body stands: "frame", "bricks", "timeout", "coins"
  frame,           \* loop iterations started so far
  dash_log,        \* history: the clock samples of the iterations in which a dash started
  clamped,         \* history: the axes constrain_player_to_world moved in the last update pass
  last_keys        \* history: the keys the previous iteration sampled (line 511); kept by
                   \* the iterations of SpecEdge only

vars == <<player, coins, score, camera, platforms, damage_bricks, now, game_over,
          game_over_time, score_saved, running, saved_scores, pc, frame, dash_log,
          clamped, last_keys>>

\* game_over_time = None
NONE == -1

\* ------------------------------------------------------------------- bounds
\* loop iterations explored per session
MaxFrames == 5
\* loop iterations explored by the scripted dash sessions (SpecDash)
MaxDashFrames == 17

\* ------------------------------------------------------- objects and levels
Platform(x, y, w, h) == PxRect(x, y, w, h)
Coin(x, y) == [rect |-> PxRect(x, y, COIN_SIZE, COIN_SIZE), collected |-> FALSE]
DamageBrick(x, y, d) == [rect |-> PxRect(x, y, BRICK_SIZE, BRICK_SIZE), damage |-> d]

\* main, lines 457-462 and 471-473
MainCoins == <<Coin(300, 400), Coin(500, 500), Coin(600, 300), Coin(700, 200)>>
MainBricks == <<DamageBrick(200, 150, BRICK_DAMAGE)>>

\* main, lines 438-454
NewPlayer ==
  [pos |-> <<200 * PX, 200 * PX>>, y_velocity |-> 0, x_velocity |-> 0,
   is_grounded |-> FALSE, last_dash |-> 0, is_dashing |-> FALSE, dash_timer |-> 0,
   facing_right |-> TRUE, dash_key_pressed |-> FALSE, hp |-> START_HP,
   is_invincible |-> FALSE, last_damage_time |-> 0]

\* Levels.  level.json is not part of the sources; a level is any ordered list of
\* platforms.  LandingLevel is the one-platform level of the landing scenario; Stairs
\* is a ground strip across the world under the start position with two steps
\* above it, from which the skybox can be reached; Empty has no platform.
LandingLevel == <<Platform(150, 260, 100, 20)>>
Stairs == <<Platform(0, 215, 4069, 20), Platform(230, 160, 100, 20), Platform(150, 105, 100, 20)>>
Empty == <<>>

\* other coin and brick lists than main's: two coins in reach of one player
\* rectangle, two overlapping bricks of different damage
ClusterCoins == <<Coin(300, 400), Coin(500, 500), Coin(700, 205), Coin(700, 200)>>
TwoBricks == <<DamageBrick(200, 150, 40), DamageBrick(180, 150, BRICK_DAMAGE)>>

\* A session: the level, the objects, and the state the loop is entered in.
Session(p, plats, bricks, cs, t) ==
  [player |-> p, platforms |-> plats, damage_bricks |-> bricks, coins |-> cs, now |-> t,
   score |-> 0, game_over |-> FALSE, game_over_time |-> NONE, score_saved |-> FALSE,
   saved_scores |-> <<>>]

\* The state main constructs (lines 435-480), in three levels, and states a
\* session started that way is in after the given number of loop iterations
\* (t is a clock value no earlier than 16 ms per iteration):
\*   AtLeftEdge    Stairs, 56 iterations holding left
\*   AtRightEdge   Stairs, 1101 iterations holding right
\*   AboveFloor    Empty, 207 iterations of free fall
\*   BelowSkybox   Stairs, 82 iterations climbing the two steps and jumping
\*   BeforeCoin    Stairs, 138 iterations holding right
\*   MidJump       Stairs, 7 iterations: a jump from the ground, through the brick
\*   Hurt          Stairs, 196 iterations jumping into the brick three times
\*   HurtTwice     Stairs and TwoBricks, 129 iterations jumping into the first
\*                 brick twice
\*   Dead          Hurt, one more jump into the brick, death detected, and
\*                 4000 ms of the death screen
\*   Falling       Empty, 49 iterations of free fall
FromStart == NewPlayer
AtLeftEdge == [NewPlayer EXCEPT !.pos = <<40, 2000>>, !.facing_right = FALSE]
AtRightEdge == [NewPlayer EXCEPT !.pos = <<40535, 2000>>, !.is_grounded = TRUE]
AboveFloor == [NewPlayer EXCEPT !.pos = <<2000, 20250>>, !.y_velocity = 100]
BelowSkybox == [NewPlayer EXCEPT !.pos = <<2490, 522>>, !.y_velocity = -34,
                                 !.facing_right = FALSE]
BeforeCoin == [NewPlayer EXCEPT !.pos = <<6830, 2000>>]
MidJump == [NewPlayer EXCEPT !.pos = <<2000, 1730>>, !.y_velocity = -40, !.hp = 75,
                             !.is_invincible = TRUE, !.last_damage_time = 1032]
Hurt == [NewPlayer EXCEPT !.hp = 25, !.last_damage_time = 3112, !.is_grounded = TRUE]
HurtTwice == [NewPlayer EXCEPT !.hp = 20, !.last_damage_time = 2056, !.is_grounded = TRUE]
Dead == [NewPlayer EXCEPT !.pos = <<2000, 1902>>, !.y_velocity = -48, !.hp = 0,
                          !.is_invincible = TRUE, !.last_damage_time = 4152]
Falling == [NewPlayer EXCEPT !.pos = <<2000, 4450>>, !.y_velocity = 98]

Sessions ==
  { Session(FromStart, LandingLevel, MainBricks, MainCoins, 1000),
    Session(FromStart, Stairs, MainBricks, MainCoins, 1000),
    Session(FromStart, Stairs, TwoBricks, MainCoins, 1000),
    Session(AtLeftEdge, Stairs, MainBricks, MainCoins, 1000),
    Session(AtRightEdge, Stairs, MainBricks, MainCoins, 18000),
    Session(AboveFloor, Empty, MainBricks, MainCoins, 3400),
    Session(BelowSkybox, Stairs, MainBricks, MainCoins, 1400),
    Session(BeforeCoin, Stairs, MainBricks, MainCoins, 2300),
    Session(BeforeCoin, Stairs, MainBricks, ClusterCoins, 2300),
    Session(MidJump, Stairs, MainBricks, MainCoins, 1112),
    Session(Hurt, Stairs, MainBricks, MainCoins, 4136),
    Session(HurtTwice, Stairs, TwoBricks, MainCoins, 3064),
    [Session(Dead, Stairs, MainBricks, MainCoins, 8168) EXCEPT
       !.game_over = TRUE, !.game_over_time = 4168, !.score_saved = TRUE,
       !.saved_scores = <<0>>] }

\* ------------------------------------------------------------------- inputs
BoolKeys == [left : BOOLEAN, right : BOOLEAN, jump : BOOLEAN, dash : BOOLEAN]
NoKeys == [left |-> FALSE, right |-> FALSE, jump |-> FALSE, dash |-> FALSE]

\* what clock.tick(60) lets pass between two samples of the clock: 16 ms at
\* the frame cap, more when an iteration stalls
Ticks == {16, 1000}

InitFrom(S) ==
  /\ \E s \in S :
       /\ player = s.player
       /\ platforms = s.platforms
       /\ damage_bricks = s.damage_bricks
       /\ coins = s.coins
       /\ now = s.now
       /\ score = s.score
       /\ game_over = s.game_over
       /\ game_over_time = s.game_over_time
       /\ score_saved = s.score_saved
       /\ saved_scores = s.saved_scores
  /\ camera = <<0, 0>>
  /\ running = TRUE
  /\ pc = "frame"
  /\ frame = 0
  /\ dash_log = <<>>
  /\ clamped = {}
  /\ last_keys = NoKeys

Init == InitFrom(Sessions)

\* ------------------------------------------------------------ the game loop
\* One iteration starts with clock.tick and the event loop (lines 482-486):
\* the clock advances by dt, a QUIT event clears running.
\* save_score, lines 493-495
SaveOnce == IF score_saved THEN saved_scores ELSE Append(saved_scores, score)

\* lines 510-523 at clock value t: the update pass and the death check; an
\* iteration in which hp <= 0 is seen ends at the continue of line 523
UpdateAndDeathCheck(keys, t) ==
  /\ player' = UpdatePass(player, keys, t, platforms)
  /\ clamped' = LET q == BeforeClamp(player, keys, t, platforms)
                IN {a \in {1, 2} : q.pos[a] # ConstrainPlayerToWorld(q).pos[a]}
  /\ dash_log' = IF ~player.is_dashing /\ player'.is_dashing
                 THEN Append(dash_log, t)
                 ELSE dash_log
  /\ IF player'.hp <= 0
     THEN /\ game_over' = TRUE
          /\ game_over_time' = t
          /\ pc' = "frame"
     ELSE /\ UNCHANGED <<game_over, game_over_time>>
          /\ pc' = "bricks"

GameOverFrameMutEarlyExit(keys, dt, quit) ==
  /\ pc = "frame" /\ running /\ game_over
  /\ now' = now + dt
  /\ saved_scores' = SaveOnce
  /\ score_saved' = TRUE
  /\ frame' = frame + 1
  /\ IF now + dt - game_over_time >= EXIT_DELAY_MS
     THEN /\ running' = FALSE
          /\ UpdateAndDeathCheck(keys, now + dt)
     ELSE /\ running' = ~quit
          /\ UNCHANGED <<player, dash_log, clamped, game_over, game_over_time, pc>>
  /\ UNCHANGED <<coins, score, camera, platforms, damage_bricks, last_keys>>

\* lines 491-508, an iteration in the game-over state: the score is saved once;
\* before the exit delay has passed the death screen is drawn and the iteration
\* ends at the continue; after it, running is cleared and the iteration falls
\* through to lines 510-523
GameOverFrame(keys, dt, quit) ==
  /\ pc = "frame" /\ running /\ game_over
  /\ now' = now + dt
  /\ saved_scores' = SaveOnce
  /\ score_saved' = TRUE
  /\ frame' = frame + 1
  /\ IF now + dt - game_over_time > EXIT_DELAY_MS
     THEN /\ running' = FALSE
          /\ UpdateAndDeathCheck(keys, now + dt)
     ELSE /\ running' = ~quit
          /\ UNCHANGED <<player, dash_log, clamped, game_over, game_over_time, pc>>
  /\ UNCHANGED <<coins, score, camera, platforms, damage_bricks, last_keys>>

\* lines 510-523 of an iteration that is not in the game-over state
PlayFrameBody(keys, dt, quit) ==
  /\ pc = "frame" /\ running /\ ~game_over
  /\ now' = now + dt
  /\ running' = ~quit
  /\ UpdateAndDeathCheck(keys, now + dt)
  /\ frame' = frame + 1
  /\ UNCHANGED <<coins, score, camera, platforms, damage_bricks, score_saved, saved_scores>>

PlayFrame(keys, dt, quit) == PlayFrameBody(keys, dt, quit) /\ UNCHANGED last_keys

\* line 526
DamageBricks ==
  /\ pc = "bricks"
  /\ player' = HandleDamageBricks(player, damage_bricks, now)
  /\ pc' = "timeout"
  /\ UNCHANGED <<coins, score, camera, platforms, damage_bricks, now, game_over,
                 game_over_time, score_saved, running, saved_scores, frame, dash_log, clamped,
                 last_keys>>

\* lines 529-531
InvincibilityTimeout ==
  /\ pc = "timeout"
  /\ player' = InvincibilityCheck(player, now)
  /\ pc' = "coins"
  /\ UNCHANGED <<coins, score, camera, platforms, damage_bricks, now, game_over,
                 game_over_time, score_saved, running, saved_scores, frame, dash_log, clamped,
                 last_keys>>

\* lines 534-538: coin collection and the camera; the iteration ends
CoinsAndCamera ==
  /\ pc = "coins"
  /\ coins' = HandleCoinCollection(player, coins, score)[1]
  /\ score' = HandleCoinCollection(player, coins, score)[2]
  /\ camera' = CameraUpdate(PlayerRect(player))
  /\ pc' = "frame"
  /\ UNCHANGED <<player, platforms, damage_bricks, now, game_over, game_over_time,
                 score_saved, running, saved_scores, frame, dash_log, clamped,
                 last_keys>>

Next ==
  \/ \E keys \in BoolKeys, dt \in Ticks, quit \in BOOLEAN :
       frame < MaxFrames /\ PlayFrame(keys, dt, quit)
  \/ \E keys \in BoolKeys, dt \in Ticks, quit \in BOOLEAN :
       frame < MaxFrames /\ GameOverFrame(keys, dt, quit)
  \/ DamageBricks
  \/ InvincibilityTimeout
  \/ CoinsAndCamera

Spec == Init /\ [][Next]_vars

\* ------------------------------------------------------------ long sessions
\* SpecDash follows a few sessions through whole dashes and the cooldown after
\* them.  The first iteration takes any of FirstDashKeys; the later ones hold or
\* release dash + right.  An iteration takes 16 ms, or stalls so that the
\* sixteenth iteration after a dash start samples the clock 499 or 500 ms after it.
Keys(l, r, j, d) == [left |-> l, right |-> r, jump |-> j, dash |-> d]
DashRight == Keys(FALSE, TRUE, FALSE, TRUE)
FirstDashKeys == {NoKeys, DashRight, Keys(TRUE, FALSE, FALSE, TRUE), Keys(FALSE, TRUE, TRUE, TRUE)}
DashKeysAt(f) == IF f = 0 THEN FirstDashKeys ELSE {NoKeys, DashRight}
DashTicks == {16, 259, 260}

DashSessions ==
  { Session(FromStart, LandingLevel, MainBricks, MainCoins, 1000),
    Session(Hurt, Stairs, MainBricks, MainCoins, 4136) }

InitDash == InitFrom(DashSessions)

NextDash ==
  \/ \E keys \in DashKeysAt(frame), dt \in DashTicks :
       frame < MaxDashFrames /\ PlayFrame(keys, dt, FALSE)
  \/ \E keys \in DashKeysAt(frame), dt \in DashTicks :
       frame < MaxDashFrames /\ GameOverFrame(keys, dt, FALSE)
  \/ DamageBricks
  \/ InvincibilityTimeout
  \/ CoinsAndCamera

SpecDash == InitDash /\ [][NextDash]_vars

\* SpecBrick is the scenario of a brick of damage 25 that overlaps the player
\* all the time: the state main constructs, on the ground strip of Stairs, with
\* the brick placed over the start position; no input; iterations at the
\* cadence of clock.tick(60), 16 or 17 ms, until ScenarioMs of clock time have passed.
\* the clock time the scenario is followed for
ScenarioMs == 3000
BrickSession ==
  Session(FromStart, Stairs, <<DamageBrick(190, 190, BRICK_DAMAGE)>>, MainCoins, 1000)
BrickTicks == {16, 17}
ScenarioOver == now - BrickSession.now >= ScenarioMs

InitBrick == InitFrom({BrickSession})

NextBrick ==
  \/ \E dt \in BrickTicks : ~ScenarioOver /\ PlayFrame(NoKeys, dt, FALSE)
  \/ DamageBricks
  \/ InvincibilityTimeout
  \/ CoinsAndCamera

SpecBrick == InitBrick /\ [][NextBrick]_vars

\* =================================================================== claims
\* the first brick, in list order, whose rectangle the player's rectangle overlaps
Touching == {i \in 1..Len(damage_bricks) :
               Colliderect(PlayerRect(player), damage_bricks[i].rect)}
FirstTouching == CHOOSE i \in Touching : \A j \in Touching : i <= j
\* a loop iteration starts in this step
FrameStep == pc = "frame" /\ frame' = frame + 1
\* ... and runs the update pass (lines 510-517)
UpdateStep == FrameStep /\ (~game_over \/ now' - game_over_time > EXIT_DELAY_MS)

\* C1: hp stays within 0..100 in every reachable state; it never increases, and
\* it changes only in the step that runs handle_damage_bricks (so only through
\* handle_damage), where a damage larger than hp leaves 0.
C1_HpBounded ==
  /\ [](player.hp \in 0..START_HP)
  /\ [][/\ player'.hp <= player.hp
        /\ (player'.hp # player.hp => pc = "bricks")]_vars

\* C1 witness: a damage of 40 has been applied to hp = 20 and left 0
C1_Witness ==
  /\ pc = "timeout" /\ player.hp = 0 /\ player.last_damage_time = now
  /\ damage_bricks = TwoBricks

\* C2: in every state (so at the end of every update pass) the player's position
\* is within [0, WORLD_WIDTH-15] x [SKYBOX_HEIGHT, WORLD_HEIGHT-15]; and whenever
\* an update pass ended with an axis clamped by constrain_player_to_world (axis 1
\* is x, axis 2 is y), the velocity component of that axis is 0.
InWorld(p) ==
  /\ 0 <= p.pos[1] /\ p.pos[1] <= (WORLD_WIDTH - PLAYER_SIZE) * PX
  /\ SKYBOX_HEIGHT * PX <= p.pos[2] /\ p.pos[2] <= (WORLD_HEIGHT - PLAYER_SIZE) * PX

C2_InWorld ==
  /\ InWorld(player)
  /\ (1 \in clamped => player.x_velocity = 0)
  /\ (2 \in clamped => player.y_velocity = 0)

\* C2 witness: the player has fallen past the floor bound and was clamped onto it
C2_Witness ==
  /\ pc = "bricks" /\ clamped = {2}
  /\ player.pos[2] = (WORLD_HEIGHT - PLAYER_SIZE) * PX /\ player.y_velocity = 0

\* C3: a coin's collected flag never goes back to false, the score is the number
\* of collected coins in every state, and the score never decreases.
Collected == {i \in 1..Len(coins) : coins[i].collected}

C3_CoinsAndScore ==
  /\ [](score = Cardinality(Collected))
  /\ [][/\ \A i \in 1..Len(coins) : coins[i].collected => coins'[i].collected
        /\ Len(coins') = Len(coins)
        /\ score' >= score]_vars

\* C3 witness: two coins were picked up in one iteration, and the player then
\* stayed on them for another iteration
C3_Witness ==
  /\ pc = "frame" /\ frame = 2 /\ score = 2
  /\ \E i, j \in Collected :
       /\ i # j
       /\ Colliderect(PlayerRect(player), coins[i].rect)
       /\ Colliderect(PlayerRect(player), coins[j].rect)

\* C4: in the step that runs handle_damage_bricks with the player on at least one
\* brick: if the player is invincible, the player is left unchanged; if not, hp
\* drops by the damage of the first brick touched (never below 0),
\* is_invincible is set and last_damage_time is the clock sample, whatever
\* other bricks are touched.
C4_DamageGate ==
  [][pc = "bricks" /\ Touching # {} =>
       IF player.is_invincible
       THEN player' = player
       ELSE /\ player'.hp = Max(player.hp - damage_bricks[FirstTouching].damage, 0)
            /\ player'.is_invincible
            /\ player'.last_damage_time = now]_vars

\* C4 witness: the player is on both bricks of TwoBricks and took the 40 of the
\* first one only
C4_Witness ==
  /\ pc = "timeout" /\ damage_bricks = TwoBricks /\ Touching = {1, 2}
  /\ player.hp = START_HP - 40 /\ player.is_invincible /\ player.last_damage_time = now

\* C5 as stated: in the step that runs the invincibility check on an invincible
\* player, is_invincible stays true exactly when the clock sample is less than
\* last_damage_time + 1000, and is cleared from last_damage_time + 1000 on.
C5_ClearedAt1000 ==
  [][pc = "timeout" /\ player.is_invincible =>
       (player'.is_invincible <=> now < player.last_damage_time + INVINCIBLE_MS)]_vars

\* C5 as amended: the check clears is_invincible exactly when the clock sample is
\* MORE than 1000 ms after last_damage_time (at exactly 1000 ms the player is
\* still invincible); is_invincible is cleared by no other step; and a player
\* that has taken damage is invincible in every state whose clock sample is at
\* most last_damage_time + 1000.
C5_ClearedAfter1000 ==
  /\ [][pc = "timeout" /\ player.is_invincible =>
          (player'.is_invincible <=> now <= player.last_damage_time + INVINCIBLE_MS)]_vars
  /\ [][player.is_invincible /\ ~player'.is_invincible =>
          pc = "timeout" /\ now > player.last_damage_time + INVINCIBLE_MS]_vars
  /\ [](player.hp < START_HP /\ now <= player.last_damage_time + INVINCIBLE_MS
          => player.is_invincible)

\* C5 witness: damage at t, still invincible after the check at t + 1000 (an
\* iteration of 1000 ms), cleared by the check at t + 1016
C5_Witness ==
  /\ pc = "coins" /\ ~player.is_invincible /\ player.hp = START_HP - BRICK_DAMAGE
  /\ now = player.last_damage_time + INVINCIBLE_MS + 16
  /\ frame = 4

\* C10 as stated: whenever is_dashing holds, |x_velocity| = dash_speed.
C10_DashSpeedAlways == player.is_dashing => Abs(player.x_velocity) = DASH_SPEED

\* C10 as amended: whenever is_dashing holds, x_velocity is dash_speed, -dash_speed
\* or 0; during a dash it changes only to 0, and only in an update pass that ends
\* with the player snapped to a platform's side or clamped at a world edge.
AtSideOrEdge(p) ==
  \/ p.pos[1] \in {0, (WORLD_WIDTH - PLAYER_SIZE) * PX}
  \/ \E i \in 1..Len(platforms) :
       p.pos[1] \in {(platforms[i].left - PLAYER_SIZE) * PX, platforms[i].right * PX}

C10_DashSpeedOrStopped ==
  /\ [](player.is_dashing => player.x_velocity \in {DASH_SPEED, -DASH_SPEED, 0})
  /\ [][player.is_dashing /\ player'.is_dashing /\ player'.x_velocity # player.x_velocity =>
          player'.x_velocity = 0 /\ UpdateStep /\ AtSideOrEdge(player')]_vars

\* C10 witness: a dash to the right was stopped by the side of a platform and
\* goes on with x_velocity = 0
C10_Witness ==
  /\ player.is_dashing /\ player.x_velocity = 0 /\ player.facing_right
  /\ \E i \in 1..Len(platforms) : player.pos[1] = (platforms[i].left - PLAYER_SIZE) * PX

\* C6 as stated (SpecBrick): over the 3 seconds hp drops to 75 and no further;
\* when the scenario is over hp is 75.
C6_OneHit ==
  /\ player.hp >= START_HP - BRICK_DAMAGE
  /\ (ScenarioOver => player.hp = START_HP - BRICK_DAMAGE)

\* C6 as amended (SpecBrick): hp drops by 25 three times, in the first iteration
\* and then in the first iteration after each invincibility window has been
\* cleared (more than 1000 ms after the previous damage); when the 3 seconds are
\* over hp is 25.
C6_ThreeHits ==
  /\ [](ScenarioOver => player.hp = START_HP - 3 * BRICK_DAMAGE)
  /\ [][player'.hp # player.hp =>
          /\ player'.hp = player.hp - BRICK_DAMAGE
          /\ (player.hp = START_HP \/ now > player.last_damage_time + INVINCIBLE_MS)]_vars

\* C6 witness: the end of the scenario, after the third hit
C6_Witness ==
  /\ ScenarioOver /\ pc = "frame" /\ player.hp = START_HP - 3 * BRICK_DAMAGE
  /\ Touching = {1}

\* C7 (SpecDash): a dash starts only in an iteration whose clock sample is at
\* least 500 ms after last_dash, and stamps last_dash with that sample;
\* last_dash changes in no other way; so any two dash starts of a session are
\* at least 500 ms apart.
C7_DashCooldown ==
  /\ [](\A i, j \in 1..Len(dash_log) : i < j => dash_log[j] - dash_log[i] >= DASH_COOLDOWN)
  /\ [][~player.is_dashing /\ player'.is_dashing =>
          now' - player.last_dash >= DASH_COOLDOWN /\ player'.last_dash = now']_vars
  /\ [][player'.last_dash # player.last_dash => ~player.is_dashing /\ player'.is_dashing]_vars

\* C7 witness: a second dash has started, exactly 500 ms after the first
C7_Witness ==
  /\ Len(dash_log) = 2 /\ dash_log[2] - dash_log[1] = DASH_COOLDOWN
  /\ player.is_dashing /\ player.last_dash = dash_log[2]

\* C8 as stated (SpecDash): once a dash is in progress, every loop iteration
\* decrements dash_timer, so that the dash ends.
C8_TimerEveryFrame ==
  [][FrameStep /\ player.is_dashing => player'.dash_timer = player.dash_timer - 1]_vars

\* C8 as amended (SpecDash): every iteration that runs the update pass decrements
\* the dash_timer of a dashing player by one, and ends the dash with
\* x_velocity = 0 exactly when the timer reaches 0; a dash lasts at most 15 such
\* iterations; gravity is not added to y_velocity in an iteration that starts
\* or continues a dash, and is added again in every airborne iteration that
\* neither starts nor continues one.  An iteration in the game-over state that
\* does not run the update pass leaves the player as it is: a dash in progress
\* when game_over is set does not end.
C8_DashEnds ==
  /\ [](player.is_dashing => player.dash_timer \in 1..(DASH_FRAMES - 1))
  /\ [][UpdateStep /\ player.is_dashing =>
          /\ player'.dash_timer = player.dash_timer - 1
          /\ (player'.is_dashing <=> player'.dash_timer > 0)
          /\ (~player'.is_dashing => player'.x_velocity = 0)
          /\ player'.y_velocity \in {player.y_velocity, 0}]_vars
  /\ [][UpdateStep /\ ~player.is_dashing /\ player'.is_dashing =>
          /\ player'.dash_timer = DASH_FRAMES - 1
          /\ player'.y_velocity \in {player.y_velocity, JUMP_FORCE, 0}]_vars
  /\ [][UpdateStep /\ ~player.is_dashing /\ ~player'.is_dashing /\ ~player.is_grounded =>
          player'.y_velocity \in {Min(player.y_velocity + GRAVITY, MAX_FALL_SPEED), 0}]_vars
  /\ [][FrameStep /\ ~UpdateStep => player' = player]_vars

\* C8 witness: a dash started in the air in the first iteration has ended in the
\* fifteenth, and the sixteenth has added gravity again
C8_Witness ==
  /\ pc = "bricks" /\ frame = DASH_FRAMES + 1 /\ Len(dash_log) = 1
  /\ ~player.is_dashing /\ player.dash_timer = 0 /\ player.x_velocity = 0
  /\ ~player.is_grounded /\ player.y_velocity = GRAVITY

\* C9 (SpecDash): in every state, dash_timer > 0 exactly when is_dashing, and
\* dash_timer is not negative.
C9_TimerIffDashing ==
  /\ (player.dash_timer > 0 <=> player.is_dashing)
  /\ player.dash_timer >= 0

\* C9 witness: a dash has run its 15 iterations and ended
C9_Witness ==
  /\ Len(dash_log) = 1 /\ ~player.is_dashing /\ player.dash_timer = 0
  /\ frame = DASH_FRAMES /\ pc = "bricks"

\* --------------------------------------------------------- landing and rest
\* SpecLanding follows a player that is given no input until it lies on a
\* platform or on the world floor, and for the iterations after that: the state
\* main constructs above the one platform of LandingLevel, and AboveFloor in
\* the level without platforms; no bricks, no coins; every iteration takes 16 ms.
LandingFrames == 60
LandingSessions ==
  { Session(FromStart, LandingLevel, <<>>, <<>>, 1000),
    Session(AboveFloor, Empty, <<>>, <<>>, 3400) }

InitLanding == InitFrom(LandingSessions)

NextLanding ==
  \/ frame < LandingFrames /\ PlayFrame(NoKeys, 16, FALSE)
  \/ DamageBricks
  \/ InvincibilityTimeout
  \/ CoinsAndCamera

SpecLanding == InitLanding /\ [][NextLanding]_vars

\* C11 as stated (SpecLanding): after 60 iterations above the platform at
\* (150,260,100,20) the player has y_velocity = 0, is_grounded = true and
\* pos.y = 245.
C11_LandedAt60 ==
  frame = LandingFrames /\ platforms = LandingLevel =>
    /\ player.y_velocity = 0
    /\ player.is_grounded
    /\ player.pos[2] = (260 - PLAYER_SIZE) * PX

\* ------------------------------------------------- handle_collisions alone
\* SpecCollide applies handle_collisions once to a player as move_player and
\* apply_physics can leave it: at, beside, above, inside and below the
\* platforms of a level, rising, at rest or falling.  The levels put a wall on
\* a floor, and two overlapping floors of different height, in both orders.
Floor == Platform(150, 260, 100, 20)
LowFloor == Platform(150, 262, 100, 20)
Wall == Platform(210, 200, 20, 60)
CollideLevels ==
  { LandingLevel, <<Floor, Wall>>, <<Wall, Floor>>, <<Floor, LowFloor>>, <<LowFloor, Floor>> }

CollideXs == {1300, 1400, 1985, 2000, 2400, 2600}
CollideYs == {2300, 2420, 2450, 2452, 2462, 2480, 2500, 2610, 2795}
CollideVs == {-50, -2, 0, 2, 42, 100}

InitCollide ==
  /\ \E x \in CollideXs, y \in CollideYs, v \in CollideVs, g \in BOOLEAN, d \in BOOLEAN :
       player = [NewPlayer EXCEPT !.pos = <<x, y>>, !.y_velocity = v, !.is_grounded = g,
                                  !.is_dashing = d, !.dash_timer = IF d THEN 7 ELSE 0,
                                  !.x_velocity = IF d THEN DASH_SPEED ELSE 0]
  /\ platforms \in CollideLevels
  /\ coins = <<>> /\ damage_bricks = <<>> /\ score = 0 /\ camera = <<0, 0>>
  /\ now = 1000 /\ game_over = FALSE /\ game_over_time = NONE /\ score_saved = FALSE
  /\ running = TRUE /\ saved_scores = <<>> /\ frame = 0 /\ dash_log = <<>> /\ clamped = {}
  /\ last_keys = NoKeys
  /\ pc = "collide"

\* handle_collisions(player, platforms), line 515
Collide ==
  /\ pc = "collide"
  /\ player' = HandleCollisions(player, platforms)
  /\ pc' = "collided"
  /\ UNCHANGED <<coins, score, camera, platforms, damage_bricks, now, game_over,
                 game_over_time, score_saved, running, saved_scores, frame, dash_log, clamped,
                 last_keys>>

SpecCollide == InitCollide /\ [][Collide]_vars

\* C12 (SpecCollide): handle_collisions lands the player exactly when some
\* platform has its top between previous_bottom = current_bottom - y_velocity
\* and current_bottom (inclusive), overlaps the player horizontally, and
\* y_velocity > 0; it then snaps pos.y to the top of the FIRST such platform in
\* level order minus 15, zeroes y_velocity and sets is_grounded; in every other
\* case is_grounded is false after the call, whatever it was before.
LandsOn == {i \in 1..Len(platforms) :
              LET r == PlayerRect(player)
                  pl == platforms[i]
              IN /\ player.y_velocity > 0
                 /\ r.right > pl.left /\ r.left < pl.right
                 /\ r.bottom * PX - player.y_velocity <= pl.top * PX
                 /\ pl.top <= r.bottom}
FirstLandsOn == CHOOSE i \in LandsOn : \A j \in LandsOn : i <= j

C12_LandingExactly ==
  [][pc = "collide" =>
       IF LandsOn # {}
       THEN /\ player'.is_grounded
            /\ player'.y_velocity = 0
            /\ player'.pos[2] = (platforms[FirstLandsOn].top - PLAYER_SIZE) * PX
       ELSE ~player'.is_grounded]_vars

\* C12 witness: in the level whose first platform is the lower of two
\* overlapping floors, the player has been landed on that first platform
C12_Witness ==
  /\ pc = "collided" /\ platforms = <<LowFloor, Floor>>
  /\ player.is_grounded /\ player.y_velocity = 0
  /\ player.pos[2] = (LowFloor.top - PLAYER_SIZE) * PX

\* C13 as stated: once hp has reached 0 no update is applied any more (the
\* player, the coins, the score and the camera stay as they are), and game_over
\* never returns to false.
C13_FrozenAtZeroHp ==
  /\ [][player.hp <= 0 =>
          player' = player /\ coins' = coins /\ score' = score /\ camera' = camera]_vars
  /\ [][game_over => game_over']_vars

\* C14 as stated: save_score is called at most once, and when the loop has
\* exited (running is false at the loop test) it has been called exactly once,
\* with the final score.
C14_SavedAtExit ==
  /\ Len(saved_scores) <= 1
  /\ (~running /\ pc = "frame" => saved_scores = <<score>>)

\* ------------------------------------------------------ Camera.update alone
\* SpecCamera applies the last step of an iteration (coin collection without
\* coins, camera.update) once to a player anywhere in the world bounds: in
\* the corners, on both sides of the positions where the viewport starts and
\* stops following, and in the middle.
CameraXs == {0, 3925, 3930, 3935, 3940, 20000, 36615, 36620, 36625, 40540}
CameraYs == {500, 2925, 2930, 2935, 2940, 10000, 17405, 17410, 17415, 20330}

InitCamera ==
  /\ \E x \in CameraXs, y \in CameraYs, c \in {<<0, 0>>, <<1607, 707>>} :
       /\ player = [NewPlayer EXCEPT !.pos = <<x, y>>]
       /\ camera = c
  /\ platforms = Empty /\ coins = <<>> /\ damage_bricks = <<>> /\ score = 0
  /\ now = 1000 /\ game_over = FALSE /\ game_over_time = NONE /\ score_saved = FALSE
  /\ running = TRUE /\ saved_scores = <<>> /\ frame = 1 /\ dash_log = <<>> /\ clamped = {}
  /\ last_keys = NoKeys
  /\ pc = "coins"

SpecCamera == InitCamera /\ [][CoinsAndCamera]_vars

Clamp(v, lo, hi) == IF v < lo THEN lo ELSE IF v > hi THEN hi ELSE v
\* the viewport: camera.camera, of the fixed size 800x600
Viewport == PxRect(camera[1], camera[2], WINDOW_WIDTH, WINDOW_HEIGHT)
Inside(a, b) ==
  b.left <= a.left /\ a.right <= b.right /\ b.top <= a.top /\ a.bottom <= b.bottom

\* C15 (SpecCamera): the viewport is always inside the world rectangle; the step
\* that runs camera.update puts its top-left at
\* (clamp(centerx - 400, 0, WORLD_WIDTH - 800), clamp(centery - 300, 0, WORLD_HEIGHT - 600))
\* with centerx = left + 7 and centery = top + 7 of the player's rectangle, and
\* after it the whole player rectangle is inside the viewport.
C15_CameraClamped ==
  /\ [](Inside(Viewport, PxRect(0, 0, WORLD_WIDTH, WORLD_HEIGHT)))
  /\ [][pc = "coins" =>
          /\ camera'[1] = Clamp(PlayerRect(player).left + PLAYER_SIZE \div 2 - 400,
                                0, WORLD_WIDTH - 800)
          /\ camera'[2] = Clamp(PlayerRect(player).top + PLAYER_SIZE \div 2 - 300,
                                0, WORLD_HEIGHT - 600)
          /\ Inside(PlayerRect(player), PxRect(camera'[1], camera'[2], 800, 600))]_vars

\* C15 witness: a player on the world floor in mid-world: the viewport follows
\* in x and is held at the world's bottom in y
C15_Witness ==
  /\ pc = "frame" /\ player.pos = <<20000, (WORLD_HEIGHT - PLAYER_SIZE) * PX>>
  /\ camera = <<2007 - 400, WORLD_HEIGHT - WINDOW_HEIGHT>>

\* C16 as stated (SpecLanding): whenever pos.y is WORLD_HEIGHT - 15 (the player
\* lies on the world floor), is_grounded is true.
C16_GroundedOnFloor ==
  player.pos[2] = (WORLD_HEIGHT - PLAYER_SIZE) * PX => player.is_grounded

\* the player lies on a platform or on the world floor and does not move vertically
AtRest(p) ==
  /\ p.y_velocity = 0
  /\ \/ p.pos[2] = (WORLD_HEIGHT - PLAYER_SIZE) * PX
     \/ \E i \in 1..Len(platforms) :
          /\ p.pos[2] = (platforms[i].top - PLAYER_SIZE) * PX
          /\ PlayerRect(p).right > platforms[i].left
          /\ PlayerRect(p).left < platforms[i].right
JumpKeys == Keys(FALSE, FALSE, TRUE, FALSE)

\* C17 as stated: from a player at rest, an iteration without input ends with
\* is_grounded true and pos.y unchanged, and an iteration with the jump key
\* pressed ends with y_velocity = jump_force.
C17_RestKeepsGrounded ==
  /\ [][~game_over /\ FrameStep /\ AtRest(player)
          /\ player' = UpdatePass(player, NoKeys, now', platforms)
          => player'.is_grounded /\ player'.pos[2] = player.pos[2]]_vars
  /\ [][~game_over /\ FrameStep /\ AtRest(player)
          /\ player' = UpdatePass(player, JumpKeys, now', platforms)
          => player'.y_velocity = JUMP_FORCE]_vars

\* the side-collision condition of the claim: the player's rectangle straddles the
\* platform's left or right edge and overlaps it vertically beyond the 5px margins
Straddles(r, pl) ==
  /\ r.bottom > pl.top + 5 /\ r.top < pl.bottom - 5
  /\ \/ r.right > pl.left /\ r.left < pl.left
     \/ r.left < pl.right /\ r.right > pl.right
\* where the side snap puts pos.x: left of the platform when its left edge is
\* straddled, else right of it
SnapX(r, pl) ==
  IF r.right > pl.left /\ r.left < pl.left
  THEN (pl.left - PLAYER_SIZE) * PX
  ELSE pl.right * PX
StraddledUpTo(n) == {i \in 1..n : Straddles(PlayerRect(player), platforms[i])}
LastOf(S) == CHOOSE i \in S : \A j \in S : j <= i
\* what handle_collisions does to pos.x and x_velocity when the platforms whose
\* side collision applies are those of S
SidesApplied(S) ==
  IF S = {}
  THEN player'.pos[1] = player.pos[1] /\ player'.x_velocity = player.x_velocity
  ELSE /\ player'.pos[1] = SnapX(PlayerRect(player), platforms[LastOf(S)])
       /\ player'.x_velocity = 0

\* C18 as stated (SpecCollide): the side collision of EVERY platform of the
\* level whose side condition holds is applied (snap, x_velocity = 0; when
\* several apply the last in level order decides pos.x), also of platforms
\* after the first grounding platform.
C18_AllSidesApply ==
  [][pc = "collide" => SidesApplied(StraddledUpTo(Len(platforms)))]_vars

\* C18 as amended (SpecCollide): the side collisions applied are those of the
\* platforms BEFORE the first grounding platform in level order (of all
\* platforms when the player does not land); the grounding platform and the
\* platforms after it are not checked for side collisions.
C18_SidesBeforeLanding ==
  [][pc = "collide" =>
       SidesApplied(StraddledUpTo(IF LandsOn = {} THEN Len(platforms)
                                  ELSE FirstLandsOn - 1))]_vars

\* C18 witness: a dashing player has been snapped to the left of the wall and
\* then landed on the floor that comes after the wall in the level
C18_Witness ==
  /\ pc = "collided" /\ platforms = <<Wall, Floor>>
  /\ player.is_grounded /\ player.pos = <<(Wall.left - PLAYER_SIZE) * PX, (Floor.top - PLAYER_SIZE) * PX>>
  /\ player.is_dashing /\ player.x_velocity = 0

\* ------------------------------------------------------ the dash key's edges
\* SpecEdge follows one session (the state main constructs, above the platform
\* of LandingLevel, no bricks, no coins) through a dash and the iterations after
\* it, and records in last_keys the keys each iteration samples.  The dash key
\* is pressed with the right key, the left key or no direction key; an iteration
\* takes 16 ms or stalls for 300 ms, so that 15 iterations can outlast the
\* cooldown.
EdgeFrames == 16
EdgeKeys ==
  { NoKeys, DashRight, Keys(TRUE, FALSE, FALSE, TRUE), Keys(FALSE, FALSE, FALSE, TRUE) }
EdgeTicks == {16, 300}

InitEdge == InitFrom({Session(FromStart, LandingLevel, <<>>, <<>>, 1000)})

PlayEdgeFrame(keys, dt) == PlayFrameBody(keys, dt, FALSE) /\ last_keys' = keys

NextEdge ==
  \/ \E keys \in EdgeKeys, dt \in EdgeTicks : frame < EdgeFrames /\ PlayEdgeFrame(keys, dt)
  \/ DamageBricks
  \/ InvincibilityTimeout
  \/ CoinsAndCamera

SpecEdge == InitEdge /\ [][NextEdge]_vars

\* a dash starts in this step
DashStarts == ~player.is_dashing /\ player'.is_dashing
\* the claim's condition on the iteration made in this step: last_keys' are the
\* keys of this iteration, last_keys those of the previous one
RisingEdgeDash ==
  /\ ~player.is_dashing
  /\ last_keys'.dash /\ ~last_keys.dash
  /\ now' - player.last_dash >= DASH_COOLDOWN
  /\ (last_keys'.left \/ last_keys'.right)

\* C19 as stated (SpecEdge): an iteration starts a dash exactly when the player
\* is not dashing, the dash key is pressed in it and was not pressed in the
\* previous iteration, at least 500 ms have passed since last_dash and a
\* direction key is held; the start sets is_dashing, dash_timer = 15 (14 once
\* apply_physics has counted this iteration), x_velocity = 9 to the right or -9
\* to the left, facing_right accordingly and last_dash = now.
C19_DashOnRisingEdge ==
  [][FrameStep =>
       /\ DashStarts <=> RisingEdgeDash
       /\ DashStarts =>
            /\ player'.dash_timer = DASH_FRAMES - 1
            /\ player'.x_velocity = IF last_keys'.right THEN DASH_SPEED ELSE -DASH_SPEED
            /\ player'.facing_right = last_keys'.right
            /\ player'.last_dash = now']_vars

\* pos.x of every session of SpecDash before its first dash
DashStartX == NewPlayer.pos[1]
\* the step is the update pass that ends the first dash of the session, and the
\* dash has met no platform side and no world edge (x_velocity was never zeroed,
\* and the last pass left the player at none of them)
FirstDashEndsInOpenSpace ==
  /\ UpdateStep /\ Len(dash_log) = 1
  /\ player.is_dashing /\ ~player'.is_dashing
  /\ player.x_velocity # 0 /\ ~AtSideOrEdge(player')

\* C20 as stated (SpecDash): a dash in open space has displaced the player by
\* 15 x 9 = 135 when is_dashing is cleared.
C20_Displaced135 ==
  [][FirstDashEndsInOpenSpace =>
       Abs(player'.pos[1] - DashStartX) = DASH_FRAMES * DASH_SPEED]_vars

\* C20 as amended (SpecDash): in every update pass that starts with is_dashing,
\* the keys are ignored and pos.x moves by the carried x_velocity (or the pass
\* ends at a platform side or world edge); the pass that STARTS the dash moves
\* the player by the normal speed 3.5 in the direction held, not by dash_speed;
\* so a dash in open space has displaced the player by 3.5 + 14 x 9 = 129.5 in
\* the dash direction when is_dashing is cleared.
C20_Displaced129 ==
  /\ [][UpdateStep /\ player.is_dashing =>
          \/ player'.pos[1] = player.pos[1] + player.x_velocity
          \/ AtSideOrEdge(player')]_vars
  /\ [][UpdateStep /\ DashStarts /\ player'.x_velocity # 0 =>
          player'.pos[1] - player.pos[1] = (IF player'.x_velocity > 0 THEN SPEED ELSE -SPEED)]_vars
  /\ [][FirstDashEndsInOpenSpace =>
          player'.pos[1] - DashStartX =
            (IF player.x_velocity > 0 THEN 1 ELSE -1) * (SPEED + (DASH_FRAMES - 1) * DASH_SPEED)]_vars

\* C20 witness: the first dash, to the right from the start position, has ended
\* in its fifteenth iteration at x = 200 + 3.5 + 14 x 9
C20_Witness ==
  /\ pc = "bricks" /\ frame = DASH_FRAMES /\ Len(dash_log) = 1
  /\ ~player.is_dashing /\ player.dash_timer = 0
  /\ player.pos[1] = DashStartX + SPEED + (DASH_FRAMES - 1) * DASH_SPEED

\* ------------------------------------------------------------------ jumping
\* SpecJump follows sessions in which the jump key is pressed on the ground, in
\* the air and during a dash, and records in last_keys the keys each iteration
\* samples: the state main constructs, on the ground strip of Stairs; MidJump,
\* rising above it; AboveFloor, which reaches the world floor in its first
\* iteration, dashing or not; Falling, which reaches the maximal fall speed in
\* its first iteration, far above the floor.  The dash key is pressed with the
\* right or the left key.  No bricks, no coins; every iteration takes 16 ms.
JumpFrames == 12
JumpInputs ==
  { NoKeys, JumpKeys, DashRight, Keys(FALSE, TRUE, TRUE, TRUE), Keys(TRUE, FALSE, FALSE, TRUE) }
JumpSessions ==
  { Session(FromStart, Stairs, <<>>, <<>>, 1000),
    Session(MidJump, Stairs, <<>>, <<>>, 1112),
    Session(AboveFloor, Empty, <<>>, <<>>, 3400),
    Session(Falling, Empty, <<>>, <<>>, 1784) }

InitJump == InitFrom(JumpSessions)

NextJump ==
  \/ \E keys \in JumpInputs : frame < JumpFrames /\ PlayEdgeFrame(keys, 16)
  \/ DamageBricks
  \/ InvincibilityTimeout
  \/ CoinsAndCamera

SpecJump == InitJump /\ [][NextJump]_vars

\* y_velocity becomes jump_force in this step
JumpStarts == player'.y_velocity = JUMP_FORCE /\ player.y_velocity # JUMP_FORCE

\* C21 (SpecJump): y_velocity becomes jump_force only in the update pass of an
\* iteration that starts with is_grounded = true and the player not dashing and
\* that samples the jump key as pressed; an iteration that starts airborne
\* never does it; and move_player, applied to the state the iteration starts in
\* with the keys it samples, sets y_velocity to jump_force in exactly those
\* iterations and leaves is_grounded as it was.
C21_JumpOnlyGrounded ==
  [][ /\ JumpStarts => /\ UpdateStep
                       /\ player.is_grounded /\ ~player.is_dashing /\ last_keys'.jump
      /\ UpdateStep =>
           LET m == MovePlayer(player, last_keys', now')
           IN /\ m.is_grounded = player.is_grounded
              /\ m.y_velocity = IF player.is_grounded /\ ~player.is_dashing /\ last_keys'.jump
                                THEN JUMP_FORCE
                                ELSE player.y_velocity ]_vars

\* C21 witness: the iteration just made started on the ground, sampled the jump
\* key and left the player rising at jump_force, no longer grounded
C21_Witness ==
  /\ pc = "bricks" /\ last_keys.jump
  /\ player.y_velocity = JUMP_FORCE /\ ~player.is_grounded /\ ~player.is_dashing
  /\ player.pos[2] < NewPlayer.pos[2]

\* ----------------------------------------------------- the exit after death
\* SpecExit follows sessions to the end of the loop: Hurt, one hit from death
\* under the brick, and Dead, 4000 ms into the death screen.  An iteration
\* takes 16 ms or stalls for 1000 ms, and a QUIT event may arrive in any
\* iteration.  ExitFrames bounds the iterations made before the game-over state
\* is entered; the iterations of the game-over state are bounded by the clock.
\* The loop keeps iterating while running is true, and every iteration
\* advances the clock: the fairness condition of SpecExit.
ExitFrames == 3
ExitInputs == {NoKeys, JumpKeys}
ExitTicks == {16, 1000}
ExitSessions ==
  { Session(Hurt, Stairs, MainBricks, MainCoins, 4136),
    [Session(Dead, Stairs, MainBricks, MainCoins, 8168) EXCEPT
       !.game_over = TRUE, !.game_over_time = 4168, !.score_saved = TRUE,
       !.saved_scores = <<0>>] }

InitExit == InitFrom(ExitSessions)

NextExit ==
  \/ \E keys \in ExitInputs, dt \in ExitTicks, quit \in BOOLEAN :
       frame < ExitFrames /\ PlayFrame(keys, dt, quit)
  \/ \E keys \in ExitInputs, dt \in ExitTicks, quit \in BOOLEAN :
       GameOverFrame(keys, dt, quit)
  \/ DamageBricks
  \/ InvincibilityTimeout
  \/ CoinsAndCamera

SpecExit == InitExit /\ [][NextExit]_vars /\ WF_vars(NextExit)

\* an iteration of the game-over state is made in this step; game_over_time
\* is the clock value g at which the state was entered
DeathScreenStep == FrameStep /\ game_over /\ running
\* the iteration reaches line 499: it is the one that falls through to the
\* update pass and the death check, which stamps game_over_time again
DeathExit == DeathScreenStep /\ game_over_time' = now'

\* C22 (SpecExit): an iteration of the game-over state that samples a clock
\* value of at most g + 5000 shows the death screen and changes nothing but
\* the clock, the saved score and, on a QUIT event, running; it never ends the
\* loop through the exit delay.  An iteration that samples a later clock value
\* clears running.  With the loop iterating and the clock advancing, the
\* game-over state leads to running = false, after which no iteration is made.
C22_ExitAfterDelay ==
  /\ [][DeathScreenStep /\ now' - game_over_time <= 5000
          => /\ ~DeathExit
             /\ game_over' /\ game_over_time' = game_over_time
             /\ player' = player /\ pc' = "frame"]_vars
  /\ [][DeathScreenStep /\ now' - game_over_time > 5000 => ~running' /\ DeathExit]_vars
  /\ [][DeathExit => now' - game_over_time > 5000]_vars
  /\ [][~running => UNCHANGED <<frame, now, running>>]_vars
  /\ (game_over ~> ~running)

\* C22 witness: from Dead, a death-screen iteration has sampled the clock
\* exactly 5000 ms after g and the next one, 1000 ms later, has ended the loop
\* through the exit delay
C22_Witness ==
  /\ ~running /\ game_over /\ score_saved /\ game_over_time = now
  /\ frame = 2 /\ now = 4168 + EXIT_DELAY_MS + 1000

\* C23 (SpecJump): in every reachable state y_velocity lies between -5 and 10,
\* x_velocity is -9, 0 or 9, and x_velocity is non-zero only while is_dashing
\* is true.
C23_VelocityBounds ==
  /\ -5 * PX <= player.y_velocity /\ player.y_velocity <= 10 * PX
  /\ player.x_velocity \in {-9 * PX, 0, 9 * PX}
  /\ player.x_velocity # 0 => player.is_dashing

\* C23 witness: Falling has fallen at the maximal speed for an iteration, with
\* gravity applied again and capped, and then dashed to the left
C23_Witness ==
  /\ platforms = Empty /\ frame >= 3 /\ player.pos[2] < 1000 * PX
  /\ player.y_velocity = MAX_FALL_SPEED
  /\ player.x_velocity = -DASH_SPEED /\ player.is_dashing

\* ------------------------------------------- the trailing head-bump branch
\* the platforms, from the i-th on, at which the loop of handle_collisions
\* enters the body of the trailing elif (lines 203-211): the loop gets past the
\* landing test, neither side test holds, and the head-bump condition holds
\* for the player as the first chain has left it
RECURSIVE SecondBumpsFrom(_, _, _, _, _)
SecondBumpsFrom(q, rect, pb, plats, i) ==
  IF i > Len(plats)
  THEN {}
  ELSE LET pl == plats[i]
       IN IF Landing(q, rect, pb, pl)
          THEN {}
          ELSE LET a == IF HeadBump(q, rect, pl) THEN Bump(q, pl) ELSE q
                   here == IF ~SideLeft(rect, pl) /\ ~SideRight(rect, pl) /\ HeadBump(a, rect, pl)
                           THEN {i}
                           ELSE {}
               IN here \cup SecondBumpsFrom(SideChain(a, rect, pl), rect, pb, plats, i + 1)

SecondBumps(p, plats) ==
  LET q == [p EXCEPT !.is_grounded = FALSE]
      rect == PlayerRect(q)
  IN SecondBumpsFrom(q, rect, rect.bottom * PX - q.y_velocity, plats, 1)

\* handle_collisions with lines 202-211 removed
SideChainCut(a, rect, pl) ==
  IF SideLeft(rect, pl)
  THEN [a EXCEPT !.pos[1] = (pl.left - PLAYER_SIZE) * PX, !.x_velocity = 0]
  ELSE IF SideRight(rect, pl)
       THEN [a EXCEPT !.pos[1] = pl.right * PX, !.x_velocity = 0]
       ELSE a

RECURSIVE CollideFromCut(_, _, _, _, _)
CollideFromCut(q, rect, pb, plats, i) ==
  IF i > Len(plats)
  THEN q
  ELSE LET pl == plats[i]
       IN IF Landing(q, rect, pb, pl)
          THEN Land(q, pl)
          ELSE LET a == IF HeadBump(q, rect, pl) THEN Bump(q, pl) ELSE q
               IN CollideFromCut(SideChainCut(a, rect, pl), rect, pb, plats, i + 1)

HandleCollisionsCut(p, plats) ==
  LET q == [p EXCEPT !.is_grounded = FALSE]
      rect == PlayerRect(q)
  IN CollideFromCut(q, rect, rect.bottom * PX - q.y_velocity, plats, 1)

\* C24 (SpecCollide): handle_collisions enters the body of the trailing
\* head-bump elif at no platform, and its result is the result of
\* handle_collisions without that branch.
C24_SecondBumpDead ==
  [][pc = "collide" => /\ SecondBumps(player, platforms) = {}
                       /\ player' = HandleCollisionsCut(player, platforms)]_vars

\* C24 witness: a rising player under the floor, between its sides, has been
\* snapped below it by the first head-bump branch, so that the trailing elif
\* was reached with y_velocity already 0
C24_Witness ==
  /\ pc = "collided" /\ platforms = LandingLevel
  /\ player.pos = <<2000, Floor.bottom * PX>>
  /\ player.y_velocity = 0 /\ ~player.is_grounded
====
